---- MODULE Spec2Model ----
(***************************************************************************)
(* Model of the Video Analytics SDK (src/video-analytics.js): the event    *)
(* queue, the batch sender, the retry coordinator and the page-unload      *)
(* beacon, as tasks of a single-threaded event loop.  Every action is one  *)
(* task: a call of the public API, a timer callback or the settlement of   *)
(* one fetch promise.                                                      *)
(***************************************************************************)
EXTENDS Integers, Sequences, FiniteSets, TLC

VARIABLES
  config,           \* the merged configuration: clientId and batchSize
  isInitialized,    \* let isInitialized
  eventQueue,       \* let eventQueue: events waiting for their first send
  retryQueue,       \* let retryQueue: events of failed sends
  retryAttempt,     \* let retryAttempt: the shared retry counter
  retryTimeout,     \* let retryTimeout: 0 for null, else the armed delay in ms
  batchInterval,    \* let batchInterval: TRUE while the periodic timer runs
  unloadListener,   \* TRUE once the beforeunload listener is registered
  trackedPlayers,   \* let trackedPlayers: player -> {videoId, lastTimeupdateTracked}
  listeners,        \* per player, how often trackPlayer registered its listeners
  now,              \* Date.now(), in ms
  inflight,         \* fetch promises not yet settled, one record per batch
  beaconInFlight,   \* beacon payloads handed to navigator.sendBeacon
  accepted,         \* history: number of events trackEvent has created
  delivered,        \* history: ids discarded by a success handler
  dropped,          \* history: ids discarded after the retries were exhausted
  retrySends,       \* history: retry sends that carried the first event, up to 6
  flushCount,       \* history: number of fetches started by sendBatch
  unloads,          \* history: number of beforeunload signals handled
  requests,         \* server: the requests received, each with its handler's position
  logFile           \* server: the writes to EventLogger.logFile, in order

vars == <<config, isInitialized, eventQueue, retryQueue, retryAttempt,
          retryTimeout, batchInterval, unloadListener, trackedPlayers,
          listeners, now,
          inflight, beaconInFlight, accepted, delivered, dropped, retrySends,
          flushCount, unloads, requests, logFile>>

\* the variables of the server
serverVars == <<requests, logFile>>

-----------------------------------------------------------------------------
(* Bounds of the model. *)

\* events created in the specification without teardown
MaxEvents == 2
\* events created in the specification with teardown
MaxEventsUnload == 2
\* events created in the collector specification
MaxEventsCollect == 2
\* events created in the default-configuration specification
MaxEventsDefault == 18
\* beforeunload signals handled
MaxUnloads == 1
\* events created in the sampling specification
MaxEventsSampling == 2
\* the last reading of the clock, in ms
MaxClock == 1750
\* events created in the specification with a fair flush timer
MaxEventsLive == 2
\* events in the batch of one request to the server
MaxBatchEvents == 1

(* Program constants. *)

DefaultBatchSize == 15
MaxRetryAttempts == 5
BaseDelay == 1000
MaxDelay == 30000
HttpOkLow == 200
HttpOkHigh == 299
StatusOK == 200
StatusNoContent == 204
StatusBadRequest == 400
StatusMethodNotAllowed == 405
StatusInternalServerError == 500
MinTimeupdateInterval == 500

\* the names for which trackEvent sends at once
PriorityEvents == {"play", "pause", "ended", "error"}

\* the players of the page, and the video id each is registered with
Players == {"p1"}
VideoIdOf(player) == "video-" \o player

\* every player object of the model, and the videoId arguments of trackPlayer
AllPlayers == {"p1", "p2"}
VideoIds == {"video-p1", "video-p2"}

\* what the clock advances by between two tasks, in ms
ClockSteps == {250}

\* clientId arguments of init: null (modelled as the empty string) or a name
ClientIds == {"", "c1"}

\* what a fetch can settle with: a network error (status 0, the promise
\* rejects) or a response with a status and a body that parses as JSON or not
Responses ==
  {[status |-> 0,   json |-> FALSE],
   [status |-> 200, json |-> TRUE],
   [status |-> 204, json |-> FALSE],
   [status |-> 404, json |-> TRUE],
   [status |-> 500, json |-> FALSE]}

-----------------------------------------------------------------------------
(* The state as one record, so that a handler is a function on states and  *)
(* handlers compose the way the code calls them.                           *)

Cur ==
  [config |-> config, isInitialized |-> isInitialized,
   eventQueue |-> eventQueue, retryQueue |-> retryQueue,
   retryAttempt |-> retryAttempt, retryTimeout |-> retryTimeout,
   batchInterval |-> batchInterval, unloadListener |-> unloadListener,
   trackedPlayers |-> trackedPlayers, listeners |-> listeners, now |-> now,
   inflight |-> inflight,
   beaconInFlight |-> beaconInFlight, accepted |-> accepted,
   delivered |-> delivered, dropped |-> dropped, retrySends |-> retrySends,
   flushCount |-> flushCount, unloads |-> unloads]

Becomes(s) ==
  /\ config' = s.config
  /\ isInitialized' = s.isInitialized
  /\ eventQueue' = s.eventQueue
  /\ retryQueue' = s.retryQueue
  /\ retryAttempt' = s.retryAttempt
  /\ retryTimeout' = s.retryTimeout
  /\ batchInterval' = s.batchInterval
  /\ unloadListener' = s.unloadListener
  /\ trackedPlayers' = s.trackedPlayers
  /\ listeners' = s.listeners
  /\ now' = s.now
  /\ inflight' = s.inflight
  /\ beaconInFlight' = s.beaconInFlight
  /\ accepted' = s.accepted
  /\ delivered' = s.delivered
  /\ dropped' = s.dropped
  /\ retrySends' = s.retrySends
  /\ flushCount' = s.flushCount
  /\ unloads' = s.unloads
  /\ UNCHANGED serverVars

Ids(events) == {events[i].id : i \in 1..Len(events)}

\* whether events hold the first event trackEvent created
CarriesFirstEvent(events) == 1 \in Ids(events)

Min(a, b) == IF a <= b THEN a ELSE b

RECURSIVE Pow2(_)
Pow2(n) == IF n = 0 THEN 1 ELSE 2 * Pow2(n - 1)

-----------------------------------------------------------------------------
(* Module state after the script has been evaluated. *)

Init ==
  /\ config = [clientId |-> "", batchSize |-> DefaultBatchSize]
  /\ isInitialized = FALSE
  /\ eventQueue = <<>>
  /\ retryQueue = <<>>
  /\ retryAttempt = 0
  /\ retryTimeout = 0
  /\ batchInterval = FALSE
  /\ unloadListener = FALSE
  /\ trackedPlayers = <<>>
  /\ listeners = [p \in AllPlayers |-> 0]
  /\ now = 2 * MinTimeupdateInterval
  /\ inflight = {}
  /\ beaconInFlight = {}
  /\ accepted = 0
  /\ delivered = {}
  /\ dropped = {}
  /\ retrySends = 0
  /\ flushCount = 0
  /\ unloads = 0
  /\ requests = <<>>
  /\ logFile = <<>>

-----------------------------------------------------------------------------
(* Retry coordinator. *)

\* mutant of BackoffDelay: the 30 second cap is forgotten
BackoffDelayUncapped(attempt) == BaseDelay * Pow2(attempt)

\* Math.min(1000 * Math.pow(2, retryAttempt), 30000)
BackoffDelay(attempt) == Min(BaseDelay * Pow2(attempt), MaxDelay)

\* mutant of scheduleRetry: the test for an armed timer is missing
scheduleRetryRearms(s) ==
  [s EXCEPT !.retryAttempt = s.retryAttempt + 1,
            !.retryTimeout = BackoffDelay(s.retryAttempt + 1)]

\* scheduleRetry: nothing when a timer is armed, else count and arm
scheduleRetry(s) ==
  IF s.retryTimeout # 0
  THEN s
  ELSE [s EXCEPT !.retryAttempt = s.retryAttempt + 1,
                 !.retryTimeout = BackoffDelay(s.retryAttempt + 1)]

\* attemptRetry up to the fetch call: capture and clear retryQueue
attemptRetry(s) ==
  IF Len(s.retryQueue) = 0
  THEN s
  ELSE [s EXCEPT
          !.retryQueue = <<>>,
          !.inflight = @ \cup {[isRetry |-> TRUE, events |-> s.retryQueue,
                                retryAttempt |-> s.retryAttempt]},
          !.retrySends = IF CarriesFirstEvent(s.retryQueue)
                         THEN Min(@ + 1, MaxRetryAttempts + 1)
                         ELSE @]

\* mutant of attemptRetryThen: the handler sends what retryQueue holds by now
attemptRetryThenDrains(s, b) ==
  attemptRetry([s EXCEPT !.retryAttempt = 0,
                         !.inflight = @ \ {b},
                         !.delivered = @ \cup Ids(b.events)])

\* mutant of attemptRetryThen: the counter is not reset
attemptRetryThenKeepsCounter(s, b) ==
  [s EXCEPT !.inflight = @ \ {b},
            !.delivered = @ \cup Ids(b.events)]

\* the .then handlers of attemptRetry's fetch, for a batch b that succeeded
attemptRetryThen(s, b) ==
  [s EXCEPT !.retryAttempt = 0,
            !.inflight = @ \ {b},
            !.delivered = @ \cup Ids(b.events)]

\* mutant of attemptRetryCatch: the events go back without scheduleRetry
attemptRetryCatchForgetsTimer(s, b) ==
  IF s.retryAttempt >= MaxRetryAttempts
  THEN [s EXCEPT !.retryAttempt = 0,
                 !.inflight = @ \ {b},
                 !.dropped = @ \cup Ids(b.events)]
  ELSE [s EXCEPT !.retryQueue = @ \o b.events,
                 !.inflight = @ \ {b}]

\* the .catch handler of attemptRetry's fetch
attemptRetryCatch(s, b) ==
  IF s.retryAttempt >= MaxRetryAttempts
  THEN [s EXCEPT !.retryAttempt = 0,
                 !.inflight = @ \ {b},
                 !.dropped = @ \cup Ids(b.events)]
  ELSE scheduleRetry([s EXCEPT !.retryQueue = @ \o b.events,
                               !.inflight = @ \ {b}])

-----------------------------------------------------------------------------
(* Batch sender. *)

\* sendBatch up to the fetch call: capture and clear eventQueue
sendBatch(s) ==
  IF Len(s.eventQueue) = 0
  THEN s
  ELSE [s EXCEPT
          !.eventQueue = <<>>,
          !.inflight = @ \cup {[isRetry |-> FALSE, events |-> s.eventQueue,
                                retryAttempt |-> 0]},
          !.flushCount = @ + 1]

\* the .then handlers of sendBatch's fetch
sendBatchThen(s, b) ==
  [s EXCEPT !.retryAttempt = 0,
            !.inflight = @ \ {b},
            !.delivered = @ \cup Ids(b.events)]

\* mutant of sendBatchCatch: the failed events are not pushed to retryQueue
sendBatchCatchLosesEvents(s, b) ==
  scheduleRetry([s EXCEPT !.inflight = @ \ {b}])

\* the .catch handler of sendBatch's fetch
sendBatchCatch(s, b) ==
  scheduleRetry([s EXCEPT !.retryQueue = @ \o b.events,
                          !.inflight = @ \ {b}])

\* mutant of ResponseOk: every status below 500 passes
ResponseOkBelow500(r) == r.status >= HttpOkLow /\ r.status < 500

\* response.ok
ResponseOk(r) == r.status >= HttpOkLow /\ r.status <= HttpOkHigh

\* whether the promise chain of a fetch reaches its last .then: the fetch
\* resolved, response.ok held and response.json() resolved
ChainFulfils(r) == r.status # 0 /\ ResponseOk(r) /\ r.json

-----------------------------------------------------------------------------
(* Collector. *)

\* mutant of SendsImmediately: "error" is missing from the list
SendsImmediatelyWithoutError(eventName, queueLength, batchSize) ==
  eventName \in {"play", "pause", "ended"} \/ queueLength >= batchSize

\* mutant of SendsImmediately: the size test fires one event early
SendsImmediatelyOneEarly(eventName, queueLength, batchSize) ==
  eventName \in PriorityEvents \/ queueLength >= batchSize - 1

\* mutant of SendsImmediately: the size test fires one event late
SendsImmediatelyOneLate(eventName, queueLength, batchSize) ==
  eventName \in PriorityEvents \/ queueLength > batchSize

\* the test that makes trackEvent call sendBatch
SendsImmediately(eventName, queueLength, batchSize) ==
  eventName \in PriorityEvents \/ queueLength >= batchSize

\* mutant of trackEvent: the event is put at the head of eventQueue
trackEventUnshifts(s, player, eventName) ==
  IF ~s.isInitialized \/ player \notin DOMAIN s.trackedPlayers
  THEN s
  ELSE LET event == [id |-> s.accepted + 1, eventName |-> eventName,
                     videoId |-> s.trackedPlayers[player].videoId]
           pushed == [s EXCEPT !.eventQueue = <<event>> \o @,
                               !.accepted = @ + 1]
       IN IF SendsImmediately(eventName, Len(pushed.eventQueue),
                              s.config.batchSize)
          THEN sendBatch(pushed)
          ELSE pushed

\* trackEvent
trackEvent(s, player, eventName) ==
  IF ~s.isInitialized \/ player \notin DOMAIN s.trackedPlayers
  THEN s
  ELSE LET event == [id |-> s.accepted + 1, eventName |-> eventName,
                     videoId |-> s.trackedPlayers[player].videoId]
           pushed == [s EXCEPT !.eventQueue = Append(@, event),
                               !.accepted = @ + 1]
       IN IF SendsImmediately(eventName, Len(pushed.eventQueue),
                              s.config.batchSize)
          THEN sendBatch(pushed)
          ELSE pushed

\* trackedPlayers.set(player, {videoId, lastTimeupdateTracked: 0})
Registered(players, player, videoId) ==
  [p \in DOMAIN players \cup {player} |->
     IF p = player
     THEN [videoId |-> videoId, lastTimeupdateTracked |-> 0]
     ELSE players[p]]

\* mutant of trackPlayer: the test for an already tracked player is missing
trackPlayerAgain(s, player, videoId) ==
  trackEvent([s EXCEPT
                !.trackedPlayers = Registered(@, player, videoId),
                !.listeners[player] = @ + 1],
             player, "playerInit")

\* trackPlayer
trackPlayer(s, player, videoId) ==
  IF player \in DOMAIN s.trackedPlayers
  THEN s
  ELSE trackEvent([s EXCEPT
                     !.trackedPlayers = Registered(@, player, videoId),
                     !.listeners[player] = @ + 1],
                  player, "playerInit")

\* detectPlayers: trackPlayer for every player found that is not tracked
RECURSIVE detectPlayers(_, _)
detectPlayers(s, found) ==
  IF found = {}
  THEN s
  ELSE LET player == CHOOSE p \in found : TRUE
       IN detectPlayers(IF player \in DOMAIN s.trackedPlayers
                        THEN s
                        ELSE trackPlayer(s, player, VideoIdOf(player)),
                        found \ {player})

\* the timeupdate listener; draw is Math.random() < sampleRate.timeupdate
onTimeupdate(s, player, draw) ==
  IF draw /\ s.now - s.trackedPlayers[player].lastTimeupdateTracked
                > MinTimeupdateInterval
  THEN trackEvent([s EXCEPT
                     !.trackedPlayers[player].lastTimeupdateTracked = s.now],
                  player, "timeupdate")
  ELSE s

\* mutant of init: the periodic flush timer is not started
initWithoutInterval(s, clientId, batchSize, detected) ==
  IF s.isInitialized
  THEN s
  ELSE LET merged == [s EXCEPT !.config = [clientId |-> clientId,
                                           batchSize |-> batchSize]]
       IN IF clientId = ""
          THEN merged
          ELSE [detectPlayers([merged EXCEPT !.unloadListener = TRUE],
                              detected)
                  EXCEPT !.isInitialized = TRUE]

\* init; detected is what detectPlayers finds on the page
init(s, clientId, batchSize, detected) ==
  IF s.isInitialized
  THEN s
  ELSE LET merged == [s EXCEPT !.config = [clientId |-> clientId,
                                           batchSize |-> batchSize]]
       IN IF clientId = ""
          THEN merged
          ELSE [detectPlayers([merged EXCEPT !.batchInterval = TRUE,
                                             !.unloadListener = TRUE],
                              detected)
                  EXCEPT !.isInitialized = TRUE]

-----------------------------------------------------------------------------
(* Page unload. *)

FinalEvent == [id |-> 0, eventName |-> "pageUnload", videoId |-> ""]

\* mutant of handlePageUnload: no return when there is nothing to send
handlePageUnloadWithoutEmptyCheck(s) ==
  [s EXCEPT !.batchInterval = FALSE,
            !.unloads = @ + 1,
            !.beaconInFlight =
               @ \cup {[events |-> Append(s.eventQueue \o s.retryQueue, FinalEvent),
                        signal |-> s.unloads + 1]}]

\* handlePageUnload
handlePageUnload(s) ==
  LET cleared == [s EXCEPT !.batchInterval = FALSE, !.unloads = @ + 1]
      allEvents == s.eventQueue \o s.retryQueue
  IN IF Len(allEvents) = 0
     THEN cleared
     ELSE [cleared EXCEPT
             !.beaconInFlight = @ \cup {[events |-> Append(allEvents, FinalEvent),
                                         signal |-> s.unloads + 1]}]

-----------------------------------------------------------------------------
(* Tasks of the event loop. *)

CallInit(clientId, batchSize, detected) ==
  /\ clientId \in ClientIds
  /\ Becomes(init(Cur, clientId, batchSize, detected))

CallTrackPlayer(player, videoId, maxEvents) ==
  /\ accepted < maxEvents
  /\ Becomes(trackPlayer(Cur, player, videoId))

\* a timeupdate event of a player whose listeners are registered
TimeupdateFires(player, draw, maxEvents) ==
  /\ accepted < maxEvents
  /\ listeners[player] > 0
  /\ Becomes(onTimeupdate(Cur, player, draw))

\* time passes between two tasks
ClockAdvances(step) ==
  /\ now + step <= MaxClock
  /\ now' = now + step
  /\ UNCHANGED <<config, isInitialized, eventQueue, retryQueue, retryAttempt,
                 retryTimeout, batchInterval, unloadListener, trackedPlayers,
                 listeners, inflight, beaconInFlight, accepted, delivered,
                 dropped, retrySends, flushCount, unloads, requests, logFile>>

PlayerEvent(player, eventName, maxEvents) ==
  /\ accepted < maxEvents
  /\ Becomes(trackEvent(Cur, player, eventName))

IntervalFires ==
  /\ batchInterval
  /\ Becomes(sendBatch(Cur))

RetryTimerFires ==
  /\ retryTimeout # 0
  /\ Becomes(attemptRetry([Cur EXCEPT !.retryTimeout = 0]))

\* what the settlement of b's fetch with r makes of state s
settle(s, b, r) ==
  IF ChainFulfils(r)
  THEN IF b.isRetry THEN attemptRetryThen(s, b) ELSE sendBatchThen(s, b)
  ELSE IF b.isRetry THEN attemptRetryCatch(s, b) ELSE sendBatchCatch(s, b)

FetchSettles(b, r) ==
  /\ b \in inflight
  /\ r \in Responses
  /\ Becomes(settle(Cur, b, r))

BeforeUnload ==
  /\ unloadListener
  /\ unloads < MaxUnloads
  /\ Becomes(handlePageUnload(Cur))

\* the browser is done with a beacon; the page is told nothing
BeaconSettles(b) ==
  /\ b \in beaconInFlight
  /\ beaconInFlight' = beaconInFlight \ {b}
  /\ UNCHANGED <<config, isInitialized, eventQueue, retryQueue, retryAttempt,
                 retryTimeout, batchInterval, unloadListener, trackedPlayers,
                 listeners, now, inflight, accepted, delivered, dropped,
                 retrySends, flushCount, unloads, requests, logFile>>

-----------------------------------------------------------------------------
(* Specifications. *)

\* event names and batch sizes of the delivery specifications
DeliveryNames == {"play", "seeking"}
UnloadNames == {"seeking"}
DeliveryBatchSizes == {2, 3}
SamplingBatchSizes == {2}

\* the page without a teardown signal
Delivery(maxEvents, names) ==
  \/ \E c \in ClientIds, n \in DeliveryBatchSizes, d \in SUBSET Players :
       CallInit(c, n, d)
  \/ \E p \in Players : CallTrackPlayer(p, VideoIdOf(p), maxEvents)
  \/ \E p \in Players, e \in names : PlayerEvent(p, e, maxEvents)
  \/ IntervalFires
  \/ RetryTimerFires
  \/ \E b \in inflight, r \in Responses : FetchSettles(b, r)

Next == Delivery(MaxEvents, DeliveryNames)

Spec == Init /\ [][Next]_vars

\* the page without a teardown signal, its flush timer firing again and again
NextLive == Delivery(MaxEventsLive, DeliveryNames)

SpecLive == Init /\ [][NextLive]_vars /\ WF_vars(IntervalFires)

\* the page with teardown signals, after which it may keep running
NextUnload ==
  \/ Delivery(MaxEventsUnload, UnloadNames)
  \/ BeforeUnload
  \/ \E b \in beaconInFlight : BeaconSettles(b)

SpecUnload == Init /\ [][NextUnload]_vars

\* the collector: every priority name and a name that waits in the queue
CollectNames == PriorityEvents \cup {"seeking"}

NextCollect == Delivery(MaxEventsCollect, CollectNames)

SpecCollect == Init /\ [][NextCollect]_vars

\* the default configuration ({clientId} alone) from init to the first
\* tick of the periodic timer, events that wait in the queue only
NextDefault ==
  \/ \E c \in ClientIds, d \in SUBSET Players :
       CallInit(c, DefaultBatchSize, d)
  \/ \E p \in Players : CallTrackPlayer(p, VideoIdOf(p), MaxEventsDefault)
  \/ \E p \in Players : PlayerEvent(p, "seeking", MaxEventsDefault)
  \/ RetryTimerFires
  \/ \E b \in inflight, r \in Responses : FetchSettles(b, r)

SpecDefault == Init /\ [][NextDefault]_vars

\* the collector with timeupdate events, two players and a clock
NextSampling ==
  \/ \E c \in ClientIds, n \in SamplingBatchSizes, d \in {{}, AllPlayers} :
       CallInit(c, n, d)
  \/ \E p \in AllPlayers, v \in VideoIds :
       CallTrackPlayer(p, v, MaxEventsSampling)
  \/ \E p \in AllPlayers, draw \in BOOLEAN :
       TimeupdateFires(p, draw, MaxEventsSampling)
  \/ \E step \in ClockSteps : ClockAdvances(step)
  \/ IntervalFires
  \/ \E b \in inflight, r \in Responses : FetchSettles(b, r)

SpecSampling == Init /\ [][NextSampling]_vars

------------------------------------------------------------------------------
(* The server: the handlers of /api/v1/events and /api/v1/events/beacon,   *)
(* one goroutine per request, and the event logger they share.             *)

sdkVars == <<config, isInitialized, eventQueue, retryQueue, retryAttempt,
             retryTimeout, batchInterval, unloadListener, trackedPlayers,
             listeners, now, inflight, beaconInFlight, accepted, delivered,
             dropped, retrySends, flushCount, unloads>>

EventsPath == "/api/v1/events"
BeaconPath == "/api/v1/events/beacon"
Endpoints == {EventsPath, BeaconPath}
\* the method of a request as it reaches the handler
Methods == {"POST", "GET"}
RequestIds == {1, 2}

\* request bodies: one that json.Decoder rejects, and batches of 0.. events
Bodies ==
  {[wellFormed |-> FALSE, events |-> 0]}
    \cup {[wellFormed |-> TRUE, events |-> n] : n \in 0..MaxBatchEvents}

\* the writes of LogBatch for a batch of n events, in order: the header,
\* then for each event its JSON (logFile.Write) and the line breaks
BatchWrites(id, n) ==
  [k \in 1..(2 * n + 1) |->
     IF k = 1
     THEN [req |-> id, part |-> "header", event |-> 0]
     ELSE [req |-> id, part |-> IF k % 2 = 0 THEN "json" ELSE "breaks",
           event |-> k \div 2]]

\* what HandleEvents answers: the status and the kind of body
HandleEventsReply(outcome) ==
  CASE outcome = "method" ->
         [status |-> StatusMethodNotAllowed, body |-> "text"]
    [] outcome = "decode" -> [status |-> StatusBadRequest, body |-> "text"]
    [] outcome = "logError" ->
         [status |-> StatusInternalServerError, body |-> "text"]
    [] outcome = "logged" -> [status |-> StatusOK, body |-> "json"]

\* what HandleBeacons answers; where it returns without writing a status,
\* net/http sends 200 with an empty body
HandleBeaconsReply(outcome) ==
  CASE outcome = "method" ->
         [status |-> StatusMethodNotAllowed, body |-> "text"]
    [] outcome = "logged" -> [status |-> StatusNoContent, body |-> ""]
    [] OTHER -> [status |-> StatusOK, body |-> ""]

\* the handler of request id returns
Returns(id, outcome) ==
  LET reply == IF requests[id].endpoint = EventsPath
               THEN HandleEventsReply(outcome)
               ELSE HandleBeaconsReply(outcome)
  IN [requests EXCEPT ![id].pc = "done",
                      ![id].status = reply.status,
                      ![id].reply = reply.body]

\* a request arrives and its goroutine starts
Arrives(endpoint, method, body) ==
  /\ \E id \in RequestIds \ DOMAIN requests :
       /\ \A other \in RequestIds \ DOMAIN requests : id <= other
       /\ requests' =
            [r \in DOMAIN requests \cup {id} |->
               IF r = id
               THEN [endpoint |-> endpoint, method |-> method, body |-> body,
                     pc |-> "start", written |-> 0, status |-> 0,
                     reply |-> ""]
               ELSE requests[r]]
  /\ UNCHANGED <<sdkVars, logFile>>

\* the method test and the decoding of the body
Decodes(id) ==
  /\ id \in DOMAIN requests
  /\ requests[id].pc = "start"
  /\ requests' = IF requests[id].method # "POST"
                 THEN Returns(id, "method")
                 ELSE IF ~requests[id].body.wellFormed
                      THEN Returns(id, "decode")
                      ELSE [requests EXCEPT ![id].pc = "LogBatch"]
  /\ UNCHANGED <<sdkVars, logFile>>

\* the next write of LogBatch; ok tells whether the file accepts it. The
\* handler returns after a failed write and after the last write.
Writes(id, ok) ==
  /\ id \in DOMAIN requests
  /\ requests[id].pc = "LogBatch"
  /\ LET writes == BatchWrites(id, requests[id].body.events)
         k == requests[id].written + 1
     IN IF ok
        THEN /\ logFile' = Append(logFile, writes[k])
             /\ requests' = IF k = Len(writes)
                            THEN [Returns(id, "logged") EXCEPT ![id].written = k]
                            ELSE [requests EXCEPT ![id].written = k]
        ELSE /\ logFile' = logFile
             /\ requests' = Returns(id, "logError")
  /\ UNCHANGED sdkVars

NextServer ==
  \/ \E e \in Endpoints, m \in Methods, body \in Bodies : Arrives(e, m, body)
  \/ \E id \in RequestIds : Decodes(id)
  \/ \E id \in RequestIds, ok \in BOOLEAN : Writes(id, ok)

SpecServer == Init /\ [][NextServer]_vars

-----------------------------------------------------------------------------
(* Where an event is.                                                      *)

\* the places of event id in a sequence of events
Occurrences(id, events) ==
  Cardinality({i \in 1..Len(events) : events[i].id = id})

\* the places of event id in the batches of unsettled fetches
InFlightOccurrences(id) ==
  Cardinality({bi \in UNION {{<<b, i>> : i \in 1..Len(b.events)} : b \in inflight} :
                 bi[1].events[bi[2]].id = id})

PlaceCount(id) ==
  Occurrences(id, eventQueue) + Occurrences(id, retryQueue)
    + InFlightOccurrences(id)
    + (IF id \in delivered THEN 1 ELSE 0)
    + (IF id \in dropped THEN 1 ELSE 0)

\* ids strictly increasing: the order in which trackEvent created the events
InObservationOrder(events) ==
  \A i, j \in 1..Len(events) : i < j => events[i].id < events[j].id

\* the tracked events of a beacon payload, without the final pageUnload event
TrackedPart(events) == SelectSeq(events, LAMBDA e : e.id # 0)

InRetryFlight(id) ==
  \E b \in inflight : b.isRetry /\ id \in Ids(b.events)

InNormalFlight(id) ==
  \E b \in inflight : ~b.isRetry /\ id \in Ids(b.events)

-----------------------------------------------------------------------------
(* C1: without a teardown signal, every event trackEvent has created is in *)
(* exactly one place at every moment: eventQueue, one batch in flight,     *)
(* retryQueue, delivered, or dropped after the retries were exhausted; no  *)
(* event is lost and none is in two batches.                               *)
C1_EveryEventInExactlyOnePlace ==
  /\ \A id \in 1..accepted : PlaceCount(id) = 1
  /\ Ids(eventQueue) \cup Ids(retryQueue) \cup delivered \cup dropped
       \cup UNION {Ids(b.events) : b \in inflight} = 1..accepted

C1_Witness ==
  /\ delivered # {}
  /\ dropped # {}

(* C2: an event is never carried by a 6th retry send: after 5 failed       *)
(* retries it is dropped, whatever other batches do in the meantime.       *)
(* Stated for the first event.                                             *)
C2_NoSixthRetrySend ==
  retrySends <= MaxRetryAttempts

(* C3: when trackEvent creates an event named play, pause, ended or error, *)
(* the same step hands the transport one new batch holding the events that *)
(* were pending followed by the new event, and leaves eventQueue empty,    *)
(* whatever the length of eventQueue was.                                  *)
C3_PriorityEventSendsAtOnce ==
  [][\A p \in Players, name \in {"play", "pause", "ended", "error"} :
       LET event == [id |-> accepted', eventName |-> name,
                     videoId |-> VideoIdOf(p)]
           batch == [isRetry |-> FALSE, events |-> Append(eventQueue, event),
                     retryAttempt |-> 0]
       IN (/\ accepted' = accepted + 1
           /\ \/ event \in {eventQueue'[i] : i \in 1..Len(eventQueue')}
              \/ \E b \in inflight' : event \in {b.events[i] : i \in 1..Len(b.events)})
          => /\ eventQueue' = <<>>
             /\ batch \notin inflight
             /\ inflight' = inflight \cup {batch}
             /\ flushCount' = flushCount + 1]_vars

C3_Witness ==
  \E b \in inflight :
    /\ ~b.isRetry
    /\ Len(b.events) >= 2
    /\ b.events[Len(b.events)].eventName \in PriorityEvents
    /\ b.events[1].eventName \notin PriorityEvents

(* C4: a trackEvent call with a name outside the priority set that leaves  *)
(* at most batchSize - 1 events in eventQueue starts no send: the event is *)
(* appended and nothing else changes; and between tasks eventQueue never   *)
(* holds batchSize or more events.                                         *)
C4_NoSendBelowBatchSize ==
  /\ [](Len(eventQueue) < config.batchSize)
  /\ [][(/\ accepted' = accepted + 1
         /\ Len(eventQueue) + 1 <= config.batchSize - 1
         /\ \A b \in inflight' \ inflight :
              b.events[Len(b.events)].eventName
                \notin {"play", "pause", "ended", "error"})
        => /\ inflight' = inflight
           /\ flushCount' = flushCount
           /\ Len(eventQueue') = Len(eventQueue) + 1
           /\ SubSeq(eventQueue', 1, Len(eventQueue)) = eventQueue
           /\ eventQueue'[Len(eventQueue')].id = accepted']_vars

C4_Witness ==
  /\ Len(eventQueue) = 2
  /\ config.batchSize = 3
  /\ flushCount = 0

(* C5: with the default batchSize of 15 and no tick of the periodic timer, *)
(* the 15th event with a name outside the priority set starts the first    *)
(* and only send, its batch holds the 15 events, and eventQueue is empty   *)
(* afterwards.                                                             *)
C5_FifteenEventsOneFlush ==
  [][(accepted = 14 /\ accepted' = 15)
       => /\ flushCount = 0
          /\ inflight = {}
          /\ Len(eventQueue) = 14
          /\ flushCount' = 1
          /\ eventQueue' = <<>>
          /\ \E b \in inflight' :
               /\ inflight' = {b}
               /\ ~b.isRetry
               /\ Len(b.events) = 15
               /\ \A i \in 1..15 : b.events[i].id = i]_vars

C5_Witness ==
  /\ config.batchSize = 15
  /\ accepted = 15
  /\ flushCount = 1
  /\ eventQueue = <<>>
  /\ \E b \in inflight : Len(b.events) = 15

(* C6 as amended: while the first batch is the only one sent, the counter  *)
(* is 0 during its first send, k + 1 while its events wait in retryQueue   *)
(* after k retry sends, k during the k-th retry send, and 0 once they are  *)
(* delivered (1, 2, then 0 for fail, fail, success); the events leave      *)
(* retryQueue when a retry send starts, before its outcome is known.       *)
C6_CounterFollowsTheOnlyBatch ==
  flushCount = 1 =>
    /\ InNormalFlight(1) => retryAttempt = 0 /\ retrySends = 0
    /\ 1 \in Ids(retryQueue) =>
         /\ retryAttempt = retrySends + 1
         /\ retryTimeout # 0
         /\ ~InRetryFlight(1)
    /\ InRetryFlight(1) =>
         /\ retryAttempt = retrySends
         /\ retryQueue = <<>>
         /\ retryTimeout = 0
    /\ 1 \in delivered => retryAttempt = 0 /\ retryQueue = <<>>
    /\ 1 \in dropped => retryAttempt = 0 /\ retrySends = MaxRetryAttempts

C6_Witness ==
  /\ flushCount = 1
  /\ 1 \in delivered
  /\ retrySends = 2
  /\ retryAttempt = 0

(* C6 as stated: the counter goes 1, 2, 0 and the events stay in           *)
(* retryQueue until the success of the retry send has been observed.       *)
C6_EventsStayQueuedUntilSuccess ==
  flushCount = 1 =>
    /\ 1 \in Ids(retryQueue) => retryAttempt = retrySends + 1
    /\ 1 \in delivered => retryAttempt = 0
    /\ InRetryFlight(1) => 1 \in Ids(retryQueue)

(* C7 as amended: the events of eventQueue and of every batch started by   *)
(* sendBatch are in the order in which trackEvent created them.            *)
C7_NormalBatchesInObservationOrder ==
  /\ InObservationOrder(eventQueue)
  /\ \A b \in inflight : ~b.isRetry => InObservationOrder(b.events)

C7_Witness ==
  \E b \in inflight : ~b.isRetry /\ Len(b.events) >= 2

(* C7 as stated: the events of every transmitted batch, normal, retry or   *)
(* beacon, are in the order in which trackEvent created them.              *)
C7_EveryBatchInObservationOrder ==
  /\ \A b \in inflight : InObservationOrder(b.events)
  /\ \A b \in beaconInFlight : InObservationOrder(TrackedPart(b.events))

(* C8 as amended: a normal or retry send that settles with a 2xx response  *)
(* whose body parses as JSON is a success (counter reset to 0, events      *)
(* discarded, retryQueue and the retry timer untouched); with a network    *)
(* error, a status outside 2xx, or a 2xx response whose body does not      *)
(* parse, it is a failure: the events are appended to retryQueue and a     *)
(* retry timer is armed, except that a retry send failing with the counter *)
(* at 5 or more drops its events and resets the counter.                   *)
C8_OutcomeClassification ==
  [][\A b \in inflight, r \in Responses :
       FetchSettles(b, r) =>
         /\ b \notin inflight'
         /\ IF r.status \in 200..299 /\ r.json
            THEN /\ retryAttempt' = 0
                 /\ retryQueue' = retryQueue
                 /\ retryTimeout' = retryTimeout
                 /\ delivered' = delivered \cup Ids(b.events)
                 /\ dropped' = dropped
            ELSE IF b.isRetry /\ retryAttempt >= 5
            THEN /\ retryAttempt' = 0
                 /\ retryQueue' = retryQueue
                 /\ retryTimeout' = retryTimeout
                 /\ dropped' = dropped \cup Ids(b.events)
                 /\ delivered' = delivered
            ELSE /\ retryQueue' = retryQueue \o b.events
                 /\ retryTimeout' # 0
                 /\ delivered' = delivered
                 /\ dropped' = dropped]_vars

C8_Witness ==
  /\ delivered # {}
  /\ retryQueue # <<>>
  /\ retryTimeout # 0

(* C8 as stated: any 2xx response is a success, and a network error or a   *)
(* status outside 2xx routes the events to retryQueue with a retry         *)
(* scheduled.                                                              *)
C8_Any2xxIsSuccess ==
  [][\A b \in inflight, r \in Responses :
       FetchSettles(b, r) =>
         IF r.status \in 200..299
         THEN /\ retryAttempt' = 0
              /\ retryQueue' = retryQueue
              /\ delivered' = delivered \cup Ids(b.events)
         ELSE /\ retryQueue' = retryQueue \o b.events
              /\ retryTimeout' # 0]_vars

(* C9: handlePageUnload hands sendBeacon at most one batch per signal and  *)
(* none when eventQueue and retryQueue are both empty; neither the call    *)
(* nor what becomes of the beacon changes retryQueue, retryAttempt, the    *)
(* retry timer or the fetches in flight.                                   *)
C9_BeaconIsFireAndForget ==
  [][(unloads' # unloads \/ beaconInFlight' # beaconInFlight)
       => /\ Cardinality(beaconInFlight' \ beaconInFlight) <= 1
          /\ (eventQueue = <<>> /\ retryQueue = <<>>)
               => beaconInFlight' \subseteq beaconInFlight
          /\ \A b \in beaconInFlight' \ beaconInFlight :
               TrackedPart(b.events) = eventQueue \o retryQueue
          /\ UNCHANGED <<retryQueue, retryAttempt, retryTimeout, inflight,
                         eventQueue>>]_vars

C9_Witness ==
  /\ unloads = 1
  /\ retryQueue # <<>>
  /\ eventQueue # <<>>
  /\ \E b \in beaconInFlight : Len(b.events) = 3

(* C10: whenever scheduleRetry arms the timer it has just incremented the  *)
(* counter, and the delay is min(1000 * 2^attempt, 30000) for the new      *)
(* value: 2000, 4000, 8000, 16000, 30000 ms for 1..5, never above 30000.   *)
C10_BackoffDelays ==
  [][(retryTimeout' # retryTimeout /\ retryTimeout' # 0)
       => /\ retryTimeout = 0
          /\ retryAttempt' = retryAttempt + 1
          /\ retryTimeout' <= 30000
          /\ retryTimeout' = CASE retryAttempt' = 1 -> 2000
                               [] retryAttempt' = 2 -> 4000
                               [] retryAttempt' = 3 -> 8000
                               [] retryAttempt' = 4 -> 16000
                               [] OTHER -> 30000]_vars

C10_Witness ==
  /\ retryTimeout = 30000
  /\ retryAttempt = 5

------------------------------------------------------------------------------
\* what the timeupdate listener of a tracked player does with the next tick
TickAccepted(player, draw) ==
  onTimeupdate(Cur, player, draw).accepted = accepted + 1

TickStamps(player, draw) ==
  onTimeupdate(Cur, player, draw).trackedPlayers[player].lastTimeupdateTracked
    # trackedPlayers[player].lastTimeupdateTracked

Elapsed(player) == now - trackedPlayers[player].lastTimeupdateTracked

(* C11: after init, a timeupdate tick of a tracked player becomes an event *)
(* exactly when the random draw passes and at least 500 ms have elapsed    *)
(* since that player's last accepted tick; lastTimeupdateTracked changes   *)
(* only when the tick is accepted.                                         *)
C11_TickAcceptedFromFiveHundred ==
  \A p \in DOMAIN trackedPlayers, draw \in BOOLEAN :
    (isInitialized /\ listeners[p] > 0 /\ accepted < MaxEventsSampling)
      => /\ TickAccepted(p, draw)
              <=> (draw /\ Elapsed(p) >= MinTimeupdateInterval)
         /\ TickStamps(p, draw) => TickAccepted(p, draw)

------------------------------------------------------------------------------
\* the playerInit event that trackPlayer creates in the current state
PlayerInitEvent(videoId) ==
  [id |-> accepted + 1, eventName |-> "playerInit", videoId |-> videoId]

\* after is the current state with one event more, enqueued or just sent
EnqueuesExactly(after, event) ==
  /\ after.accepted = accepted + 1
  /\ \/ /\ after.eventQueue = Append(eventQueue, event)
        /\ after.inflight = inflight
     \/ /\ after.eventQueue = <<>>
        /\ \E b \in after.inflight \ inflight :
             /\ b.events = Append(eventQueue, event)
             /\ after.inflight = inflight \cup {b}
  /\ after.retryQueue = retryQueue

(* C12: trackPlayer is idempotent per player. The first registration of a  *)
(* player after init enqueues exactly one playerInit event, registers the  *)
(* listeners once and stores {videoId, lastTimeupdateTracked: 0}; a later  *)
(* trackPlayer for the same player, with any videoId, changes nothing: no  *)
(* event, no listener, the stored record as it was.                        *)
C12_TrackPlayerIdempotent ==
  /\ \A p \in AllPlayers :
       listeners[p] = IF p \in DOMAIN trackedPlayers THEN 1 ELSE 0
  /\ \A p \in AllPlayers, v \in VideoIds :
       IF p \in DOMAIN trackedPlayers
       THEN trackPlayer(Cur, p, v) = Cur
       ELSE LET after == trackPlayer(Cur, p, v)
            IN /\ after.listeners[p] = 1
               /\ after.trackedPlayers[p] =
                    [videoId |-> v, lastTimeupdateTracked |-> 0]
               /\ isInitialized => EnqueuesExactly(after, PlayerInitEvent(v))

\* a player registered after init whose record has changed since
C12_Witness ==
  \E p \in DOMAIN trackedPlayers :
    /\ isInitialized
    /\ trackedPlayers[p].lastTimeupdateTracked > 0
    /\ \E b \in inflight :
         /\ b.events[1].eventName = "playerInit"
         /\ b.events[1].videoId # VideoIdOf(p)

------------------------------------------------------------------------------
\* the writes of request id that are in the log file
LoggedWrites(id) == {k \in 1..Len(logFile) : logFile[k].req = id}

\* the whole batch of request id is in the log file
BatchAppended(id) ==
  Cardinality(LoggedWrites(id)) = 2 * requests[id].body.events + 1

(* C13: on both endpoints a request that is not a POST is answered 405 and *)
(* logs nothing, a POST whose body is malformed JSON is answered 400 and   *)
(* logs nothing, and a well-formed batch that has been appended to the log *)
(* is answered 200 with a JSON acknowledgement on /api/v1/events and 204   *)
(* with an empty body on /api/v1/events/beacon.                            *)
C13_StatusContract ==
  \A id \in DOMAIN requests :
    requests[id].pc = "done" =>
      LET r == requests[id]
      IN /\ r.method # "POST"
              => r.status = StatusMethodNotAllowed /\ LoggedWrites(id) = {}
         /\ (r.method = "POST" /\ ~r.body.wellFormed)
              => r.status = StatusBadRequest /\ LoggedWrites(id) = {}
         /\ (r.method = "POST" /\ r.body.wellFormed /\ BatchAppended(id))
              => IF r.endpoint = EventsPath
                 THEN r.status = StatusOK /\ r.reply = "json"
                 ELSE r.status = StatusNoContent /\ r.reply = ""

------------------------------------------------------------------------------
(* C14: when a normal send fails while the retry timer is armed,           *)
(* scheduleRetry leaves retryAttempt and the armed timer with its delay as *)
(* they are; the only effect of the failure is that the events of the      *)
(* batch are appended to retryQueue.                                       *)
C14_FailureWhileTimerArmed ==
  [][\A b \in inflight, r \in Responses :
       (retryTimeout # 0 /\ ~b.isRetry /\ ~ChainFulfils(r)
          /\ FetchSettles(b, r))
         => /\ retryAttempt' = retryAttempt
            /\ retryTimeout' = retryTimeout
            /\ retryQueue' = retryQueue \o b.events
            /\ inflight' = inflight \ {b}
            /\ UNCHANGED <<config, isInitialized, eventQueue, batchInterval,
                           unloadListener, trackedPlayers, listeners,
                           beaconInFlight, accepted, delivered, dropped,
                           retrySends, flushCount, unloads>>]_vars

\* two batches of one event each have failed, the second after the timer
\* was armed for the first
C14_Witness ==
  /\ flushCount = 2
  /\ inflight = {}
  /\ retrySends = 0
  /\ Len(retryQueue) = 2
  /\ retryAttempt = 1
  /\ retryTimeout = BackoffDelay(1)

------------------------------------------------------------------------------
(* C15: when a retry send succeeds, retryAttempt is reset to 0 and nothing *)
(* else happens to the retry state: the events that reached retryQueue     *)
(* while the retry was in flight are not sent by the completion handler,   *)
(* the timer armed for them stays armed, and an event leaves retryQueue    *)
(* only when the retry timer fires.                                        *)
C15_RetrySuccessOnlyResets ==
  /\ [][\A b \in inflight, r \in Responses :
          (b.isRetry /\ ChainFulfils(r) /\ FetchSettles(b, r))
            => /\ retryAttempt' = 0
               /\ retryQueue' = retryQueue
               /\ retryTimeout' = retryTimeout
               /\ inflight' = inflight \ {b}
               /\ delivered' = delivered \cup Ids(b.events)
               /\ UNCHANGED <<config, isInitialized, eventQueue,
                              batchInterval, unloadListener, trackedPlayers,
                              listeners, beaconInFlight, accepted, dropped,
                              retrySends, flushCount, unloads>>]_vars
  /\ [][(\E id \in Ids(retryQueue) : id \notin Ids(retryQueue'))
          => /\ retryTimeout # 0
             /\ retryTimeout' = 0
             /\ retryQueue' = <<>>
             /\ \E b \in inflight' \ inflight :
                  b.isRetry /\ b.events = retryQueue]_vars

\* the retry of event 1 has succeeded while event 2 waited in retryQueue
C15_Witness ==
  /\ retrySends >= 1
  /\ 1 \in delivered
  /\ retryAttempt = 0
  /\ retryQueue # <<>>
  /\ retryTimeout # 0
  /\ \A b \in inflight : ~b.isRetry

------------------------------------------------------------------------------
\* event id has left eventQueue in a batch handed to fetch
HandedToTransport(id) == id <= accepted /\ id \notin Ids(eventQueue)

(* C16: after a successful init, with a flush timer that keeps firing and  *)
(* no teardown, every event accepted into eventQueue is eventually handed  *)
(* to the transport, whether or not further events are enqueued.           *)
C16_EveryQueuedEventIsSent ==
  \A id \in 1..MaxEventsLive :
    (id \in Ids(eventQueue)) ~> HandedToTransport(id)

\* the timer has flushed a batch that neither its size nor a priority event
\* would have sent
C16_Witness ==
  \E b \in inflight :
    /\ ~b.isRetry
    /\ batchInterval
    /\ Len(b.events) < config.batchSize
    /\ \A k \in 1..Len(b.events) : b.events[k].eventName \notin PriorityEvents

------------------------------------------------------------------------------
(* C17: the shared retryAttempt is between 0 and 5 in every reachable      *)
(* state, and every retry batch carries a retryAttempt between 1 and 5,    *)
(* whatever the interleaving of normal sends, failures and retries.        *)
C17_RetryAttemptInRange ==
  /\ retryAttempt \in 0..MaxRetryAttempts
  /\ \A b \in inflight : b.isRetry => b.retryAttempt \in 1..MaxRetryAttempts

------------------------------------------------------------------------------
\* the retry sends whose fetch has not settled
RetriesOutstanding == {b \in inflight : b.isRetry}

(* C18: the retry cycle is in exactly one of Idle, Scheduled and InFlight: *)
(* the retry timer is never armed while a retry send is outstanding, and   *)
(* two retry sends are never outstanding at the same time.                 *)
C18_OneRetryStateAtATime ==
  /\ ~(retryTimeout # 0 /\ RetriesOutstanding # {})
  /\ Cardinality(RetriesOutstanding) <= 1

------------------------------------------------------------------------------
(* C19: whenever the retry timer is armed retryQueue is non-empty, and     *)
(* whenever retryQueue holds events the timer that will send them is       *)
(* armed; so when the timer fires attemptRetry finds at least one event    *)
(* and starts a retry send: its return for an empty queue is never taken.  *)
C19_ArmedTimerHasEvents ==
  /\ [](retryTimeout # 0 <=> retryQueue # <<>>)
  /\ [][(retryTimeout # 0 /\ retryTimeout' = 0)
          => \E b \in inflight' \ inflight :
               /\ b.isRetry
               /\ b.events = retryQueue
               /\ Len(b.events) >= 1]_vars

\* the timer has fired and sent events, and is armed again for later ones
C19_Witness ==
  /\ RetriesOutstanding # {}
  /\ retryTimeout # 0
  /\ retryQueue # <<>>
  /\ retrySends >= 2

------------------------------------------------------------------------------
\* the events of the page that a beacon still on its way carries
Beaconed == UNION {Ids(TrackedPart(k.events)) : k \in beaconInFlight}

(* C20: an event that handlePageUnload has put into a beacon batch is not  *)
(* transmitted again when the page keeps running: no later normal batch,   *)
(* retry batch or second beacon contains it.                               *)
C20_BeaconedEventsNotSentAgain ==
  [][\A id \in Beaconed :
       /\ \A b \in inflight' \ inflight : id \notin Ids(b.events)
       /\ \A k \in beaconInFlight' \ beaconInFlight :
            id \notin Ids(TrackedPart(k.events))]_vars

------------------------------------------------------------------------------
\* the writes of one batch are next to each other in the log file
Contiguous(id) ==
  \A i \in LoggedWrites(id), k \in LoggedWrites(id) :
    \A j \in i..k : logFile[j].req = id

\* the handler of request id has answered a decoded batch with a 2xx status
AnsweredWithSuccess(id) ==
  /\ requests[id].pc = "done"
  /\ requests[id].method = "POST"
  /\ requests[id].body.wellFormed
  /\ requests[id].status \in HttpOkLow..HttpOkHigh

(* C21: when the server handles two batches concurrently, the header line  *)
(* and the event records of one batch are contiguous in the log: writes of *)
(* different batches never interleave; and a batch answered with a success *)
(* status has all of its events in the log.                                *)
C21_BatchesContiguousInLog ==
  \A id \in DOMAIN requests :
    /\ Contiguous(id)
    /\ AnsweredWithSuccess(id) => BatchAppended(id)

====
